---- MODULE Spec2Model ----
(***************************************************************************)
(* The stroke compositing engine of src/src/App.tsx: the pixel grid, the   *)
(* stroke mask, the snapshot history and the pointer/touch handlers that   *)
(* drive them.  Every handler of the component is one atomic action: the   *)
(* state updaters it queues each run once, in the order they are queued,   *)
(* and to completion before the next event is delivered.                   *)
(*                                                                         *)
(* A color is the hex string the code stores, as a sequence of one-        *)
(* character strings (<<"#","F","9",...>>), so that hexToRgb really parses *)
(* and rgbToHex really formats.  An opacity is held in eighths (1 is 8,    *)
(* 0.125 is 1): every selectable opacity is a multiple of 1/8, and the     *)
(* floating point products of blendChannel are exact for 8-bit channels.   *)
(***************************************************************************)
EXTENDS Integers, Sequences, FiniteSets

\* ------------------------------------------------------------- bounds

\* Side of the grid (the program's GRID_SIZE is 32; the model scales it down).
GRID_SIZE == 2

\* The grid may change in at most this many commits of one behaviour of Spec.
MaxChanging == 1

\* The per-cell stamp counter of a stroke saturates here ("this many or more").
MaxStamps == 2

\* The grid may change in at most this many commits of one behaviour of SpecBlend.
MaxBlends == 2

\* -------------------------------------------------- program constants

\* history.slice(0, 10): the entries kept behind a new snapshot.
HISTORY_SLICE == 10

\* The history capacity the specification states.
Capacity == 10

\* Opacities are held as numerators over this denominator.
OpacityDen == 8

Colors ==
  [ White     |-> <<"#","F","9","F","F","F","E">>,
    Orange    |-> <<"#","F","9","8","0","1","D">>,
    Magenta   |-> <<"#","C","7","4","E","B","D">>,
    LightBlue |-> <<"#","3","A","B","3","D","A">>,
    Yellow    |-> <<"#","F","E","D","8","3","D">>,
    Lime      |-> <<"#","8","0","C","7","1","F">>,
    Pink      |-> <<"#","F","3","8","B","A","A">>,
    Gray      |-> <<"#","4","7","4","F","5","2">>,
    LightGray |-> <<"#","9","D","9","D","9","7">>,
    Cyan      |-> <<"#","1","6","9","C","9","C">>,
    Purple    |-> <<"#","8","9","3","2","B","8">>,
    Blue      |-> <<"#","3","C","4","4","A","A">>,
    Brown     |-> <<"#","8","3","5","4","3","2">>,
    Green     |-> <<"#","5","E","7","C","1","6">>,
    Red       |-> <<"#","D","0","2","E","2","6">>,
    Black     |-> <<"#","1","D","1","D","2","1">> ]

BRUSH_CHARACTER == "0"

CURSOR_CHARACTER == "X"

\* The indentation of the continuation lines of the BrushSizes template strings.
Indent == <<"\n", " ", " ", " ", " ", " ", " ", " ", " ", " ", " ">>

BrushSizes ==
  [ Tiny   |-> <<"X">>,
    Small  |-> <<"X","0">> \o Indent \o <<"0","0">>,
    Medium |-> <<"_","0","0","_">> \o Indent \o <<"0","X","0","0">> \o Indent
               \o <<"0","0","0","0">> \o Indent \o <<"_","0","0","_">>,
    Large  |-> <<"_","0","0","0","_">> \o Indent \o <<"0","0","0","0","0">> \o Indent
               \o <<"0","0","X","0","0">> \o Indent \o <<"0","0","0","0","0">> \o Indent
               \o <<"_","0","0","0","_">> ]

\* Brush maps beyond the four of the tool bar (handleBrushSelect takes any
\* string): three characters, which is no square; a square with no cursor
\* character that begins with a blank; one that begins with two brush
\* characters; a square whose cursor character is its last; and white space only.
Patterns ==
  [ Three       |-> <<"X","0","0">>,
    BlankFirst  |-> <<"_","0">> \o Indent \o <<"0","0">>,
    NoCursor    |-> <<"0","0">> \o Indent \o <<"_","0">>,
    CursorLast  |-> <<"_","0">> \o Indent \o <<"0","X">>,
    WhiteSpace  |-> <<" ">> \o Indent ]

Opacities == [ Full |-> 8, Half |-> 4, Quarter |-> 2, Eighth |-> 1 ]

\* ------------------------------------------------------------- colors

LowerDigits == <<"0","1","2","3","4","5","6","7","8","9","a","b","c","d","e","f">>

UpperDigits == <<"0","1","2","3","4","5","6","7","8","9","A","B","C","D","E","F">>

HexDigits == {LowerDigits[i] : i \in 1..16} \cup {UpperDigits[i] : i \in 1..16}

IsHexDigit(ch) == ch \in HexDigits

\* The value of each hex digit, in either case.
DigitValues ==
  [ch \in HexDigits |-> (CHOOSE i \in 1..16 : LowerDigits[i] = ch \/ UpperDigits[i] = ch) - 1]

DigitValue(ch) == DigitValues[ch]

\* hex.replace('#', ''): the first "#" is dropped.
RECURSIVE replaceHash(_)
replaceHash(hex) ==
  IF hex = <<>> THEN <<>>
  ELSE IF Head(hex) = "#" THEN Tail(hex)
  ELSE <<Head(hex)>> \o replaceHash(Tail(hex))

\* parseInt(hex, 16) on the longest prefix of hex digits, accumulated from acc.
RECURSIVE parseInt16(_, _)
parseInt16(hex, acc) ==
  IF hex = <<>> \/ ~IsHexDigit(Head(hex)) THEN acc
  ELSE parseInt16(Tail(hex), acc * 16 + DigitValue(Head(hex)))

\* (num >> 16) & 255, (num >> 8) & 255, num & 255
channelsOf(num) ==
  [ r |-> (num \div 65536) % 256,
    g |-> (num \div 256) % 256,
    b |-> num % 256 ]

hexToRgb(hex) == channelsOf(parseInt16(replaceHash(hex), 0))

\* n.toString(16): lower-case digits, no leading zero.
RECURSIVE toString16(_)
toString16(n) ==
  IF n < 16 THEN <<LowerDigits[n + 1]>>
  ELSE toString16(n \div 16) \o <<LowerDigits[(n % 16) + 1]>>

\* padStart(2, '0')
toHex(n) ==
  LET s == toString16(n) IN IF Len(s) < 2 THEN <<"0">> \o s ELSE s

rgbToHex(rgb) == <<"#">> \o toHex(rgb.r) \o toHex(rgb.g) \o toHex(rgb.b)

\* Variant of blendChannel that weighs the new channel with 1 - alpha and the
\* current one with alpha.
blendChannelSwapped(newChannel, currentChannel, alpha8) ==
  LET t == currentChannel * alpha8 + newChannel * (OpacityDen - alpha8)
  IN  (2 * t + OpacityDen) \div (2 * OpacityDen)

\* Variant of blendChannel that adds the current channel unweighted.
blendChannelAdded(newChannel, currentChannel, alpha8) ==
  LET t == newChannel * alpha8 + currentChannel * OpacityDen
  IN  (2 * t + OpacityDen) \div (2 * OpacityDen)

\* Math.round(newChannel * alpha + currentChannel * (1 - alpha)), alpha = alpha8/8:
\* the sum is t/8 with t below, and Math.round rounds a half up.
blendChannel(newChannel, currentChannel, alpha8) ==
  LET t == newChannel * alpha8 + currentChannel * (OpacityDen - alpha8)
  IN  (2 * t + OpacityDen) \div (2 * OpacityDen)

blendRgb(currentRgb, newRgb, alpha8) ==
  [ r |-> blendChannel(newRgb.r, currentRgb.r, alpha8),
    g |-> blendChannel(newRgb.g, currentRgb.g, alpha8),
    b |-> blendChannel(newRgb.b, currentRgb.b, alpha8) ]

blendColors(currentColor, newColor, alpha8) ==
  rgbToHex(blendRgb(hexToRgb(currentColor), hexToRgb(newColor), alpha8))

\* ------------------------------------------------------------- the grid

Idx == 0..(GRID_SIZE - 1)

Cells == Idx \X Idx

makeMatrix(value) == [x \in Idx |-> [y \in Idx |-> value]]

\* ------------------------------------------------------- brush footprint

IsSpace(ch) == ch \in {" ", "\n", "\t", "\r"}

\* brushMap.replace(/\s+/g, '')
mapPlainOf(brushMap) == SelectSeq(brushMap, LAMBDA ch : ~IsSpace(ch))

\* Number.isInteger(Math.sqrt(length))
IsSquare(length) == \E s \in 0..length : s * s = length

mapSideLengthOf(length) == CHOOSE s \in 0..length : s * s = length

\* Variant of cursorIndexOf that counts the index of the cursor character from 1.
cursorIndexOfFromOne(mapPlain) ==
  LET at == {i \in 1..Len(mapPlain) : mapPlain[i] = CURSOR_CHARACTER}
  IN  IF at = {} THEN 0 ELSE CHOOSE i \in at : \A j \in at : i <= j

\* mapPlain.indexOf(CURSOR_CHARACTER), 0-based, -1 when absent; then the default 0.
cursorIndexOf(mapPlain) ==
  LET at == {i \in 1..Len(mapPlain) : mapPlain[i] = CURSOR_CHARACTER}
      indexOf == IF at = {} THEN -1
                 ELSE (CHOOSE i \in at : \A j \in at : i <= j) - 1
  IN  IF indexOf = -1 THEN 0 ELSE indexOf

\* The footprint drawBrush resolves from a non-empty square map: the offset from
\* the cursor character of every brush or cursor character.
resolveOffsets(brushMap) ==
  LET mapPlain == mapPlainOf(brushMap)
      side == mapSideLengthOf(Len(mapPlain))
      cursorIndex == cursorIndexOf(mapPlain)
      brushOffsetX == cursorIndex % side
      brushOffsetY == cursorIndex \div side
  IN  { <<((i - 1) % side) - brushOffsetX, ((i - 1) \div side) - brushOffsetY>> :
          i \in { j \in 1..Len(mapPlain) :
                    mapPlain[j] = BRUSH_CHARACTER \/ mapPlain[j] = CURSOR_CHARACTER } }

\* The footprints of the maps that are not empty and are squares, resolved once
\* (resolution is pure).
BrushMaps ==
  { BrushSizes.Tiny, BrushSizes.Small, BrushSizes.Medium, BrushSizes.Large,
    Patterns.BlankFirst, Patterns.NoCursor, Patterns.CursorLast }

Footprints == [m \in BrushMaps |-> resolveOffsets(m)]

footprintOf(brushMap) ==
  IF brushMap \in BrushMaps THEN Footprints[brushMap] ELSE resolveOffsets(brushMap)

\* Variant of inGrid that joins the two tests of the row with "or".
inGridEitherRow(xCoord, yCoord) ==
  xCoord >= 0 /\ xCoord < GRID_SIZE /\ (yCoord >= 0 \/ yCoord < GRID_SIZE)

\* The test a coordinate pair passes before drawBrush pushes it on the stroke.
inGrid(xCoord, yCoord) ==
  xCoord >= 0 /\ xCoord < GRID_SIZE /\ yCoord >= 0 /\ yCoord < GRID_SIZE

\* The stroke array of drawBrush(x, y): for every brush or cursor character the
\* pair (x + dx - brushOffsetX, y + dy - brushOffsetY), pushed when it passes
\* the test.
strokeOf(brushMap, x, y) ==
  { c \in { <<x + o[1], y + o[2]>> : o \in footprintOf(brushMap) } : inGrid(c[1], c[2]) }

\* ------------------------------------------------------------ the state

VARIABLES
  canvasData,     \* [canvas, brushColor, brushMap, opacity]
  strokeData,     \* the mask of the current stroke
  canvasHistory,  \* snapshots, most recent first
  strokeDown,     \* a stroke is Active
  brushCoords,    \* the hover cell: {} (undefined) or {[x, y]}
  stamps,         \* history variable: stamps of each cell since the stroke began
  changing,       \* history variable: commits so far that changed the grid
  recent,         \* history variable: the grids before those commits
  preview,        \* history variable: the fill last drawn on the overlay for each
                  \* cell in the stroke that is down (<<>>: none)
  steady,         \* history variable: brush color and opacity are as they were
                  \* when the stroke that is down began
  failed          \* history variable: the handler of the last event threw

vars ==
  <<canvasData, strokeData, canvasHistory, strokeDown, brushCoords,
    stamps, changing, recent, preview, steady, failed>>

\* The component's state as one value, with what the drawBrush call of the
\* current event leaves behind besides the mask: its stroke array (empty until
\* drawBrush runs) and whether it threw.
Cur ==
  [ canvasData |-> canvasData, strokeData |-> strokeData,
    canvasHistory |-> canvasHistory, strokeDown |-> strokeDown,
    brushCoords |-> brushCoords, stroke |-> {}, thrown |-> FALSE ]

Init ==
  /\ canvasData = [ canvas |-> makeMatrix(Colors.White), brushColor |-> Colors.Red,
                    brushMap |-> BrushSizes.Tiny, opacity |-> Opacities.Full ]
  /\ strokeData = makeMatrix(FALSE)
  /\ canvasHistory = <<>>
  /\ strokeDown = FALSE
  /\ brushCoords = {}
  /\ stamps = makeMatrix(0)
  /\ changing = 0
  /\ recent = <<>>
  /\ preview = makeMatrix(<<>>)
  /\ steady = TRUE
  /\ failed = FALSE

\* ------------------------------------------------------------- drawBrush

\* Variant of markStroke that flips the mask entry of every cell of the stroke.
markStrokeToggle(data, stroke) ==
  [x \in Idx |-> [y \in Idx |-> IF <<x, y>> \in stroke THEN ~data[x][y] ELSE data[x][y]]]

\* The setStrokeData updater of drawBrush: a copy of the mask with every cell of
\* the stroke array set.  (What it fills on the overlay is fillStyleOf, below.)
markStroke(data, stroke) ==
  [x \in Idx |-> [y \in Idx |-> IF <<x, y>> \in stroke THEN TRUE ELSE data[x][y]]]

\* Variant of stamp that also writes the blended color of every cell of the
\* stroke into the grid.
stampPaints(s, stroke) ==
  [s EXCEPT
     !.strokeData = markStroke(s.strokeData, stroke),
     !.stroke = stroke,
     !.canvasData.canvas =
        [x \in Idx |-> [y \in Idx |->
           IF <<x, y>> \in stroke
             THEN blendColors(s.canvasData.canvas[x][y], s.canvasData.brushColor,
                              s.canvasData.opacity)
             ELSE s.canvasData.canvas[x][y]]]]

\* Variant of fillStyleOf that fills with the brush color as it is.
fillStyleOpaque(cd, x, y) == cd.brushColor

\* The fillStyle drawBrush sets before it fills the cell (x, y) of its stroke on
\* the overlay, from the canvasData of the render the handler belongs to.
fillStyleOf(cd, x, y) == blendColors(cd.canvas[x][y], cd.brushColor, cd.opacity)

\* The mask update and the stroke array of one drawBrush call.
stamp(s, stroke) ==
  [s EXCEPT !.strokeData = markStroke(s.strokeData, stroke), !.stroke = stroke]

\* Variant of drawBrush that stamps a map that is not a square with the cell
\* under the pointer instead of throwing.
drawBrushLenient(s, x, y) ==
  IF mapPlainOf(s.canvasData.brushMap) = <<>> THEN s
  ELSE IF ~IsSquare(Len(mapPlainOf(s.canvasData.brushMap)))
    THEN stamp(s, {c \in {<<x, y>>} : inGrid(c[1], c[2])})
  ELSE stamp(s, strokeOf(s.canvasData.brushMap, x, y))

\* drawBrush(x, y) in state s.  An empty map returns early; a map that is not a
\* square throws before the mask is touched (the updates the handler queued
\* before the call still take effect).
drawBrush(s, x, y) ==
  IF s.canvasData.brushMap \in BrushMaps
    THEN stamp(s, strokeOf(s.canvasData.brushMap, x, y))
  ELSE IF mapPlainOf(s.canvasData.brushMap) = <<>> THEN s
  ELSE IF ~IsSquare(Len(mapPlainOf(s.canvasData.brushMap))) THEN [s EXCEPT !.thrown = TRUE]
  ELSE stamp(s, strokeOf(s.canvasData.brushMap, x, y))

\* ------------------------------------------------------------- endStroke

\* Variant of overlayStrokeData that blends the cell color over the brush color.
overlayStrokeDataSwapped(cd, updatedStrokeData) ==
  [x \in Idx |-> [y \in Idx |->
     IF updatedStrokeData[x][y]
       THEN blendColors(cd.brushColor, cd.canvas[x][y], cd.opacity)
       ELSE cd.canvas[x][y]]]

\* overlayStrokeData(canvasData, updatedStrokeData): the canvas with every masked
\* cell blended once with the brush color (the 2d context of the mounted canvas
\* exists, so the function returns the copy).
overlayStrokeData(cd, updatedStrokeData) ==
  [x \in Idx |-> [y \in Idx |->
     IF updatedStrokeData[x][y]
       THEN blendColors(cd.canvas[x][y], cd.brushColor, cd.opacity)
       ELSE cd.canvas[x][y]]]

\* history.slice(0, HISTORY_SLICE)
sliceHistory(history) ==
  SubSeq(history, 1, IF Len(history) < HISTORY_SLICE THEN Len(history) ELSE HISTORY_SLICE)

\* Variant of historyUpdate that also saves the snapshot when the history is empty.
historyUpdateOnEmpty(history, prevCanvas) ==
  IF \/ Len(history) = 0
     \/ \E x \in Idx : \E y \in Idx : prevCanvas[x][y] # history[1][x][y]
    THEN <<prevCanvas>> \o sliceHistory(history)
    ELSE history

\* The setCanvasHistory updater of endStroke, with prev.canvas the grid before
\* the stroke is overlaid.
historyUpdate(history, prevCanvas) ==
  IF /\ Len(history) > 0
     /\ \E x \in Idx : \E y \in Idx : prevCanvas[x][y] # history[1][x][y]
    THEN <<prevCanvas>> \o sliceHistory(history)
    ELSE history

\* endStroke, the window's mouseup and touchend listener: the setStrokeDown
\* updater with the nested updaters it runs when a stroke is down.
endStroke(s) ==
  IF s.strokeDown
    THEN [s EXCEPT
            !.canvasHistory = historyUpdate(s.canvasHistory, s.canvasData.canvas),
            !.canvasData.canvas = overlayStrokeData(s.canvasData, s.strokeData),
            !.strokeData = makeMatrix(FALSE),
            !.strokeDown = FALSE]
    ELSE [s EXCEPT !.strokeDown = FALSE]

\* ------------------------------------------------------------- handlers

\* Variant of handleMouseMove that draws whether or not a stroke is down.
handleMouseMoveDraws(s, x, y) ==
  IF x < 0 \/ x >= GRID_SIZE \/ (y < 0 /\ y >= GRID_SIZE)
    THEN [s EXCEPT !.brushCoords = {}]
  ELSE IF s.brushCoords = {[x |-> x, y |-> y]}
    THEN s
  ELSE drawBrush([s EXCEPT !.brushCoords = {[x |-> x, y |-> y]}], x, y)

handleMouseMove(s, x, y) ==
  IF x < 0 \/ x >= GRID_SIZE \/ (y < 0 /\ y >= GRID_SIZE)
    THEN [s EXCEPT !.brushCoords = {}]
  ELSE IF s.brushCoords = {[x |-> x, y |-> y]}
    THEN s
  ELSE LET hover == [s EXCEPT !.brushCoords = {[x |-> x, y |-> y]}]
       IN  IF ~s.strokeDown THEN hover ELSE drawBrush(hover, x, y)

handleMouseLeave(s) == [s EXCEPT !.brushCoords = {}]

handleMouseDown(s, x, y) == drawBrush([s EXCEPT !.strokeDown = TRUE], x, y)

handleTouchMove(s, x, y) ==
  IF x < 0 \/ x >= GRID_SIZE \/ y < 0 \/ y >= GRID_SIZE THEN s
  ELSE IF ~s.strokeDown THEN s
  ELSE drawBrush(s, x, y)

\* touches is the number of contact points of the touchstart event.
handleTouchStart(s, touches) == [s EXCEPT !.strokeDown = (touches = 1)]

handleTouchEnd(s) == [s EXCEPT !.strokeDown = FALSE]

handlePalleteSelect(s, brushColor) == [s EXCEPT !.canvasData.brushColor = brushColor]

handleBrushSelect(s, brushMap) == [s EXCEPT !.canvasData.brushMap = brushMap]

handleOpacitySelect(s, opacity) == [s EXCEPT !.canvasData.opacity = opacity]

\* ------------------------------------------------------------- actions

Apply(r) ==
  /\ canvasData' = r.canvasData
  /\ strokeData' = r.strokeData
  /\ canvasHistory' = r.canvasHistory
  /\ strokeDown' = r.strokeDown
  /\ brushCoords' = r.brushCoords

countStamps(base, stroke, cap) ==
  [x \in Idx |-> [y \in Idx |->
     IF <<x, y>> \in stroke /\ base[x][y] < cap THEN base[x][y] + 1 ELSE base[x][y]]]

\* The stamp counters after an event that ends in state r: zero while no stroke
\* is down, restarted when a stroke begins, advanced by the event's stamp, and
\* saturating at cap.  And whether the handler of the event threw.
Track(r, cap) ==
  /\ stamps' = IF ~r.strokeDown THEN makeMatrix(0)
               ELSE countStamps(IF strokeDown THEN stamps ELSE makeMatrix(0), r.stroke, cap)
  /\ failed' = r.thrown

Handle(r, cap) == Apply(r) /\ Track(r, cap)

MouseDown(x, y, cap) == Handle(handleMouseDown(Cur, x, y), cap)

MouseMove(x, y, cap) == Handle(handleMouseMove(Cur, x, y), cap)

MouseLeave(cap) == Handle(handleMouseLeave(Cur), cap)

\* A mouse release anywhere in the window.
MouseUp(cap) == Handle(endStroke(Cur), cap)

TouchStart(touches, cap) == Handle(handleTouchStart(Cur, touches), cap)

TouchMove(x, y, cap) == Handle(handleTouchMove(Cur, x, y), cap)

\* A touch release on the drawing surface: the element's onTouchEnd handler runs
\* first (the event bubbles through it), then the window's touchend listener.
TouchEnd(cap) == Handle(endStroke(handleTouchEnd(Cur)), cap)

PalleteSelect(brushColor, cap) == Handle(handlePalleteSelect(Cur, brushColor), cap)

BrushSelect(brushMap, cap) == Handle(handleBrushSelect(Cur, brushMap), cap)

OpacitySelect(opacity, cap) == Handle(handleOpacitySelect(Cur, opacity), cap)

\* ------------------------------------------------------------ observers

\* Two grids differ in the color of some cell.
Differ(a, b) == a # b /\ \E c \in Cells : hexToRgb(a[c[1]][c[2]]) # hexToRgb(b[c[1]][c[2]])

FirstN(seq, n) == SubSeq(seq, 1, IF Len(seq) < n THEN Len(seq) ELSE n)

\* The count of grid-changing commits, which may not pass max.
Observe(max) ==
  /\ Differ(canvasData.canvas, canvasData'.canvas) => changing < max
  /\ changing' = IF Differ(canvasData.canvas, canvasData'.canvas)
                   THEN changing + 1 ELSE changing

\* The grids before the last Capacity grid-changing commits, most recent first.
Record ==
  recent' = IF Differ(canvasData.canvas, canvasData'.canvas)
              THEN FirstN(<<canvasData.canvas>> \o recent, Capacity) ELSE recent

\* The overlay fills of the stroke that is down after an event that ends in
\* state r, and whether brush color and opacity are still those of its begin.
Shown(r) ==
  /\ preview' =
        IF ~r.strokeDown THEN makeMatrix(<<>>)
        ELSE [x \in Idx |-> [y \in Idx |->
                IF <<x, y>> \in r.stroke THEN fillStyleOf(canvasData, x, y)
                ELSE IF strokeDown THEN preview[x][y] ELSE <<>>]]
  /\ steady' =
        \/ ~r.strokeDown
        \/ ~strokeDown
        \/ /\ steady
           /\ r.canvasData.brushColor = canvasData.brushColor
           /\ r.canvasData.opacity = canvasData.opacity

\* ------------------------------------------------------------- inputs

\* Pointer cells a touch visits: every cell of the grid, one left of it and one
\* below it.
TouchPoints == Cells \cup {<<0 - 1, 0>>, <<0, GRID_SIZE>>}

\* Pointer cells the mouse visits: two cells of the grid, one above it (row -1)
\* and one right of it (column GRID_SIZE).
MousePoints == {<<0, 0>>, <<1, 1>>, <<0, 0 - 1>>, <<GRID_SIZE, 0>>}

MainInputs ==
  [ mouse |-> MousePoints, touch |-> TouchPoints, touches |-> {1, 2},
    palette |-> {Colors.Red, Colors.Black},
    brushes |-> {BrushSizes.Tiny, BrushSizes.Small},
    opacities |-> {Opacities.Full, Opacities.Half},
    cap |-> 1 ]

\* Mouse strokes, with every stamp of a cell counted up to MaxStamps.
MouseInputs == [MainInputs EXCEPT !.cap = MaxStamps]

\* Strokes of the one-cell brush at full opacity on the cell (0, 0).
HistInputs ==
  [ mouse |-> {<<0, 0>>}, touch |-> {<<0, 0>>}, touches |-> {1},
    palette |-> {Colors.Red, Colors.White},
    brushes |-> {BrushSizes.Tiny},
    opacities |-> {Opacities.Full},
    cap |-> 1 ]

\* Strokes of the one-cell brush over two cells of the grid.
PreviewInputs ==
  [ mouse |-> {<<0, 0>>, <<1, 1>>},
    palette |-> {Colors.Red, Colors.Black},
    brushes |-> {BrushSizes.Tiny},
    opacities |-> {Opacities.Full, Opacities.Half},
    cap |-> 1 ]

\* Stamps of every kind of brush map, anchored at two opposite corners of the
\* grid and above it.
BrushInputs ==
  [ mouse |-> {<<0, 0>>, <<GRID_SIZE - 1, GRID_SIZE - 1>>, <<0, 0 - 1>>},
    brushes |-> {BrushSizes.Tiny, BrushSizes.Medium, Patterns.Three, Patterns.BlankFirst,
                 Patterns.NoCursor, Patterns.CursorLast, Patterns.WhiteSpace},
    cap |-> 1 ]

\* Strokes of the one-cell brush on the cell (0, 0), in four colors of the
\* palette at every opacity.
BlendInputs ==
  [ mouse |-> {<<0, 0>>},
    palette |-> {Colors.White, Colors.Red, Colors.Black, Colors.Green},
    brushes |-> {BrushSizes.Tiny},
    opacities |-> {Opacities.Full, Opacities.Half, Opacities.Quarter, Opacities.Eighth},
    cap |-> 1 ]

\* -------------------------------------------------------- specifications
\* Each next-state relation is the events of the mouse, of a touch and of the
\* tool bar, with the inputs of one record, each observed by the history variables.

WatchMain == Observe(MaxChanging) /\ UNCHANGED <<recent, preview, steady>>

\* Mouse, touch and tool bar events; the grid changes in at most MaxChanging commits.
Next ==
  \/ \E p \in MainInputs.mouse : MouseDown(p[1], p[2], MainInputs.cap) /\ WatchMain
  \/ \E p \in MainInputs.mouse : MouseMove(p[1], p[2], MainInputs.cap) /\ WatchMain
  \/ MouseLeave(MainInputs.cap) /\ WatchMain
  \/ MouseUp(MainInputs.cap) /\ WatchMain
  \/ TouchEnd(MainInputs.cap) /\ WatchMain
  \/ \E touches \in MainInputs.touches : TouchStart(touches, MainInputs.cap) /\ WatchMain
  \/ \E p \in MainInputs.touch : TouchMove(p[1], p[2], MainInputs.cap) /\ WatchMain
  \/ \E brushColor \in MainInputs.palette : PalleteSelect(brushColor, MainInputs.cap) /\ WatchMain
  \/ \E brushMap \in MainInputs.brushes : BrushSelect(brushMap, MainInputs.cap) /\ WatchMain
  \/ \E opacity \in MainInputs.opacities : OpacitySelect(opacity, MainInputs.cap) /\ WatchMain

Spec == Init /\ [][Next]_vars

\* Mouse and tool bar events only, every stamp counted.
NextMouse ==
  \/ \E p \in MouseInputs.mouse : MouseDown(p[1], p[2], MouseInputs.cap) /\ WatchMain
  \/ \E p \in MouseInputs.mouse : MouseMove(p[1], p[2], MouseInputs.cap) /\ WatchMain
  \/ MouseLeave(MouseInputs.cap) /\ WatchMain
  \/ MouseUp(MouseInputs.cap) /\ WatchMain
  \/ \E brushColor \in MouseInputs.palette : PalleteSelect(brushColor, MouseInputs.cap) /\ WatchMain
  \/ \E brushMap \in MouseInputs.brushes : BrushSelect(brushMap, MouseInputs.cap) /\ WatchMain
  \/ \E opacity \in MouseInputs.opacities : OpacitySelect(opacity, MouseInputs.cap) /\ WatchMain

SpecMouse == Init /\ [][NextMouse]_vars

WatchHist == Observe(Capacity + 5) /\ Record /\ UNCHANGED <<preview, steady>>

\* Capacity + 5 grid-changing strokes of one cell, with the snapshots a bounded
\* history of the grids before them would hold.
NextHist ==
  \/ \E p \in HistInputs.mouse : MouseDown(p[1], p[2], HistInputs.cap) /\ WatchHist
  \/ \E p \in HistInputs.mouse : MouseMove(p[1], p[2], HistInputs.cap) /\ WatchHist
  \/ MouseLeave(HistInputs.cap) /\ WatchHist
  \/ MouseUp(HistInputs.cap) /\ WatchHist
  \/ TouchEnd(HistInputs.cap) /\ WatchHist
  \/ \E touches \in HistInputs.touches : TouchStart(touches, HistInputs.cap) /\ WatchHist
  \/ \E p \in HistInputs.touch : TouchMove(p[1], p[2], HistInputs.cap) /\ WatchHist
  \/ \E brushColor \in HistInputs.palette : PalleteSelect(brushColor, HistInputs.cap) /\ WatchHist
  \/ \E brushMap \in HistInputs.brushes : BrushSelect(brushMap, HistInputs.cap) /\ WatchHist
  \/ \E opacity \in HistInputs.opacities : OpacitySelect(opacity, HistInputs.cap) /\ WatchHist

SpecHist == Init /\ [][NextHist]_vars

WatchPreview(r) == Observe(MaxChanging) /\ UNCHANGED recent /\ Shown(r)

\* Mouse and tool bar events on cells of the grid, with the fills each stamp
\* draws on the overlay.
NextPreview ==
  \/ \E p \in PreviewInputs.mouse :
        MouseDown(p[1], p[2], PreviewInputs.cap) /\ WatchPreview(handleMouseDown(Cur, p[1], p[2]))
  \/ \E p \in PreviewInputs.mouse :
        MouseMove(p[1], p[2], PreviewInputs.cap) /\ WatchPreview(handleMouseMove(Cur, p[1], p[2]))
  \/ MouseLeave(PreviewInputs.cap) /\ WatchPreview(handleMouseLeave(Cur))
  \/ MouseUp(PreviewInputs.cap) /\ WatchPreview(endStroke(Cur))
  \/ \E brushColor \in PreviewInputs.palette :
        PalleteSelect(brushColor, PreviewInputs.cap) /\ WatchPreview(handlePalleteSelect(Cur, brushColor))
  \/ \E brushMap \in PreviewInputs.brushes :
        BrushSelect(brushMap, PreviewInputs.cap) /\ WatchPreview(handleBrushSelect(Cur, brushMap))
  \/ \E opacity \in PreviewInputs.opacities :
        OpacitySelect(opacity, PreviewInputs.cap) /\ WatchPreview(handleOpacitySelect(Cur, opacity))

SpecPreview == Init /\ [][NextPreview]_vars

\* Mouse events and the selection of a brush map, of the tool bar or not.
NextBrush ==
  \/ \E p \in BrushInputs.mouse : MouseDown(p[1], p[2], BrushInputs.cap) /\ WatchMain
  \/ \E p \in BrushInputs.mouse : MouseMove(p[1], p[2], BrushInputs.cap) /\ WatchMain
  \/ MouseLeave(BrushInputs.cap) /\ WatchMain
  \/ MouseUp(BrushInputs.cap) /\ WatchMain
  \/ \E brushMap \in BrushInputs.brushes : BrushSelect(brushMap, BrushInputs.cap) /\ WatchMain

SpecBrush == Init /\ [][NextBrush]_vars

WatchBlend == Observe(MaxBlends) /\ UNCHANGED <<recent, preview, steady>>

\* Mouse and tool bar events; the grid changes in at most MaxBlends commits, each
\* blending over what the commits before it left.
NextBlend ==
  \/ \E p \in BlendInputs.mouse : MouseDown(p[1], p[2], BlendInputs.cap) /\ WatchBlend
  \/ \E p \in BlendInputs.mouse : MouseMove(p[1], p[2], BlendInputs.cap) /\ WatchBlend
  \/ MouseLeave(BlendInputs.cap) /\ WatchBlend
  \/ MouseUp(BlendInputs.cap) /\ WatchBlend
  \/ \E brushColor \in BlendInputs.palette : PalleteSelect(brushColor, BlendInputs.cap) /\ WatchBlend
  \/ \E brushMap \in BlendInputs.brushes : BrushSelect(brushMap, BlendInputs.cap) /\ WatchBlend
  \/ \E opacity \in BlendInputs.opacities : OpacitySelect(opacity, BlendInputs.cap) /\ WatchBlend

SpecBlend == Init /\ [][NextBlend]_vars

\* ------------------------------------------------------------- claims

\* The step endStroke takes when a stroke is down: the commit of a mouse release
\* (which ends with no stroke down, as the second conjunct repeats).
Commit == strokeDown /\ ~strokeDown' /\ Apply(endStroke(Cur))

\* The step of a touch release on the drawing surface while a stroke is down.
TouchRelease == strokeDown /\ ~strokeDown' /\ Apply(endStroke(handleTouchEnd(Cur)))

\* The color a commit gives the cell (x, y) of the grid when it is masked.
Blended(x, y) ==
  blendColors(canvasData.canvas[x][y], canvasData.brushColor, canvasData.opacity)

\* C1: a commit that changes the color of at least one cell puts the grid as it
\* was before the stroke at the front of the history, ahead of the entries the
\* history held (cut to the capacity); the first such commit already does.
C1_CommitRecordsPriorGrid ==
  [][ (Commit /\ Differ(canvasData.canvas, canvasData'.canvas))
        => canvasHistory' = FirstN(<<canvasData.canvas>> \o canvasHistory, Capacity) ]_vars

\* C2: a commit that leaves every cell of the grid with the color it held adds
\* no entry to the history, whatever was committed before.
C2_NoEntryWhenUnchanged ==
  [][ (Commit /\ ~Differ(canvasData.canvas, canvasData'.canvas))
        => canvasHistory' = canvasHistory ]_vars

\* A stroke is down after an earlier grid-changing commit, it has marked a cell,
\* and every marked cell would be painted with the color it already holds.
C2_Witness ==
  /\ strokeDown
  /\ changing >= 1
  /\ \E c \in Cells : strokeData[c[1]][c[2]]
  /\ \A c \in Cells : strokeData[c[1]][c[2]] =>
        hexToRgb(Blended(c[1], c[2])) = hexToRgb(canvasData.canvas[c[1]][c[2]])

\* C3: once Capacity + 5 strokes that each changed the grid are committed, the
\* history holds exactly Capacity entries: the grids before the last Capacity of
\* those strokes, most recent first.
C3_HistoryHoldsRecentSnapshots ==
  changing = Capacity + 5 =>
    /\ Len(canvasHistory) = Capacity
    /\ canvasHistory = recent

\* C4: the history never holds more than Capacity entries.
C4_HistoryBounded == Len(canvasHistory) <= Capacity

\* More grid-changing strokes than the capacity have been committed.
C4_Witness == changing > Capacity /\ Len(recent) = Capacity

\* C5: a commit leaves every masked cell with its color before the stroke blended
\* once with the brush color at the brush opacity; so black at one half over
\* white gives #808080.
C5_CommitBlendsOnce ==
  [][ Commit =>
        /\ \A c \in Cells : strokeData[c[1]][c[2]] =>
              canvasData'.canvas[c[1]][c[2]] = Blended(c[1], c[2])
        /\ blendColors(<<"#","F","F","F","F","F","F">>, <<"#","0","0","0","0","0","0">>,
                       Opacities.Half) = <<"#","8","0","8","0","8","0">> ]_vars

\* A stroke of the 2x2 brush in red at one half over the white grid is committed:
\* its four cells hold the rounded midpoint of #D02E26 and #F9FFFE.
C5_Witness ==
  /\ ~strokeDown
  /\ changing = 1
  /\ \A c \in {<<0, 0>>, <<1, 0>>, <<0, 1>>, <<1, 1>>} :
        canvasData.canvas[c[1]][c[2]] = <<"#","e","5","9","7","9","2">>

\* C6: a commit changes no cell that the stroke it ends has not stamped.
C6_CommitChangesOnlyStamped ==
  [][ Commit =>
        \A c \in Cells : stamps[c[1]][c[2]] = 0 =>
           canvasData'.canvas[c[1]][c[2]] = canvasData.canvas[c[1]][c[2]] ]_vars

\* The grid a commit yields when the stroke has stamped only the cell c, once.
OnceCommitted(c) == overlayStrokeData(canvasData, markStroke(makeMatrix(FALSE), {c}))

\* C7: a commit gives a cell stamped one or more times in the stroke the color
\* it gives a cell stamped exactly once.
C7_StampsIdempotent ==
  [][ Commit =>
        \A c \in Cells : stamps[c[1]][c[2]] >= 1 =>
           canvasData'.canvas[c[1]][c[2]] = OnceCommitted(c)[c[1]][c[2]] ]_vars

\* A stroke has stamped a cell twice or more, a second cell once, and a commit
\* would change the color of both.
C7_Witness ==
  /\ strokeDown
  /\ \E c \in Cells : \E d \in Cells :
        /\ stamps[c[1]][c[2]] >= 2
        /\ stamps[d[1]][d[2]] = 1
        /\ hexToRgb(Blended(c[1], c[2])) # hexToRgb(canvasData.canvas[c[1]][c[2]])
        /\ hexToRgb(Blended(d[1], d[2])) # hexToRgb(canvasData.canvas[d[1]][d[2]])

\* C8: the grid changes only in the step that commits a stroke; begin and move
\* leave every cell as it was.
C8_GridChangesOnlyAtCommit ==
  [][ canvasData'.canvas # canvasData.canvas => Commit ]_vars

\* A stroke is down on the untouched initial grid and has stamped a cell whose
\* preview color differs from its grid color.
C8_Witness ==
  /\ strokeDown
  /\ canvasData.canvas = makeMatrix(Colors.White)
  /\ \E c \in Cells :
        /\ stamps[c[1]][c[2]] >= 1
        /\ strokeData[c[1]][c[2]]
        /\ hexToRgb(Blended(c[1], c[2])) # hexToRgb(Colors.White)

\* C9: a release, of the mouse or of a touch, with a stroke down commits the
\* stroke: no stroke is down afterwards, every cell that was masked holds its
\* blended color, and the mask is all-false.
C9_ReleaseCommits ==
  [][ (Commit \/ TouchRelease) =>
        /\ ~strokeDown'
        /\ \A c \in Cells : strokeData[c[1]][c[2]] =>
              canvasData'.canvas[c[1]][c[2]] = Blended(c[1], c[2])
        /\ strokeData' = makeMatrix(FALSE) ]_vars

\* C10: while no stroke is down the mask is all-false.
C10_MaskClearWhenIdle == ~strokeDown => strokeData = makeMatrix(FALSE)

\* The cells of the grid that the footprint of the brush map covers when it is
\* anchored at (x, y).
FootprintCells(x, y) ==
  { c \in Cells : <<c[1] - x, c[2] - y>> \in footprintOf(canvasData.brushMap) }

\* C11: a begin while no stroke is down, by a mouse press at a cell or by the
\* start of a touch of one finger on a cell of the grid, leaves a stroke down
\* and the mask holding exactly the cells of the grid in the footprint anchored
\* at that cell.
C11_BeginMarksFootprint ==
  [][ ~strokeDown =>
        /\ \A p \in HistInputs.mouse :
              Apply(handleMouseDown(Cur, p[1], p[2])) =>
                /\ strokeDown'
                /\ strokeData' = markStroke(makeMatrix(FALSE), FootprintCells(p[1], p[2]))
        /\ Apply(handleTouchStart(Cur, 1)) =>
              /\ strokeDown'
              /\ \E p \in HistInputs.touch :
                    strokeData' = markStroke(makeMatrix(FALSE), FootprintCells(p[1], p[2])) ]_vars

\* C12: while no stroke is down, a move of the mouse or of a touch and a release
\* of the mouse or of a touch leave the grid, the mask and the history as they
\* were, and no stroke is down afterwards.
C12_IdleMoveEndNoOp ==
  [][ ( /\ ~strokeDown
        /\ \/ \E p \in MainInputs.mouse : Apply(handleMouseMove(Cur, p[1], p[2]))
           \/ \E p \in MainInputs.touch : Apply(handleTouchMove(Cur, p[1], p[2]))
           \/ Apply(endStroke(Cur))
           \/ Apply(endStroke(handleTouchEnd(Cur))) )
        => /\ canvasData'.canvas = canvasData.canvas
           /\ strokeData' = strokeData
           /\ canvasHistory' = canvasHistory
           /\ ~strokeDown' ]_vars

\* The mouse has moved to the cell (1, 1) while no stroke was down: it hovers
\* there, and neither a mask entry nor a grid cell has ever been set.
C12_Witness ==
  /\ ~strokeDown
  /\ brushCoords = {[x |-> 1, y |-> 1]}
  /\ strokeData = makeMatrix(FALSE)
  /\ changing = 0

\* The brush map resolves: it is not empty once its white space is removed, and
\* what is left is a square.
Resolves(brushMap) ==
  mapPlainOf(brushMap) # <<>> /\ IsSquare(Len(mapPlainOf(brushMap)))

\* The anchors of a stamp: every cell of the grid and the ring of positions
\* around it.
Anchors == ((0 - 1)..GRID_SIZE) \X ((0 - 1)..GRID_SIZE)

\* C13: wherever it is anchored, in the grid or next to it, a stamp of a brush
\* map that resolves pushes only cells of the grid on its stroke array, and it
\* sets the mask entries of exactly the footprint cells that lie in the grid.
C13_StampStaysInGrid ==
  Resolves(canvasData.brushMap) =>
    \A p \in Anchors : \A r \in {drawBrush(Cur, p[1], p[2])} :
      /\ r.stroke \subseteq Cells
      /\ r.stroke = FootprintCells(p[1], p[2])
      /\ r.strokeData
            = [x \in Idx |-> [y \in Idx |->
                 strokeData[x][y] \/ <<x, y>> \in FootprintCells(p[1], p[2])]]

\* A stroke has stamped the 4x4 brush at the far corner of the grid and nothing
\* else: part of its footprint lies beyond the grid, the cells of it in the grid
\* are marked, and the cell under the blank corner of the map is not.
C13_Witness ==
  /\ strokeDown
  /\ canvasData.brushMap = BrushSizes.Medium
  /\ \E o \in footprintOf(BrushSizes.Medium) : GRID_SIZE - 1 + o[1] >= GRID_SIZE
  /\ \A c \in Cells :
        /\ strokeData[c[1]][c[2]] = (c \in FootprintCells(GRID_SIZE - 1, GRID_SIZE - 1))
        /\ (stamps[c[1]][c[2]] >= 1) = strokeData[c[1]][c[2]]
  /\ ~strokeData[GRID_SIZE - 2][GRID_SIZE - 2]

\* C14: with a brush map whose characters, white space aside, do not fill a
\* square, a stamp throws and paints nothing, at a begin and at a move: no mask
\* entry is set and no cell of the grid changes.
C14_NonSquareThrows ==
  (mapPlainOf(canvasData.brushMap) # <<>> /\ ~IsSquare(Len(mapPlainOf(canvasData.brushMap)))) =>
    \A p \in Anchors :
      /\ \A r \in {drawBrush(Cur, p[1], p[2]), handleMouseDown(Cur, p[1], p[2])} :
            /\ r.thrown
            /\ r.strokeData = strokeData
            /\ r.canvasData.canvas = canvasData.canvas
      /\ (strokeDown /\ p \in Cells) =>
            \A r \in {handleTouchMove(Cur, p[1], p[2])} :
              /\ r.thrown
              /\ r.strokeData = strokeData
              /\ r.canvasData.canvas = canvasData.canvas
      /\ (strokeDown /\ p \in Cells /\ brushCoords # {[x |-> p[1], y |-> p[2]]}) =>
            \A r \in {handleMouseMove(Cur, p[1], p[2])} :
              /\ r.thrown
              /\ r.strokeData = strokeData
              /\ r.canvasData.canvas = canvasData.canvas

\* A stamp of the mouse with the three-character map has just thrown: a stroke
\* is down, the mouse hovers over a cell of the grid, and the mask and the
\* stamp counters are empty.
C14_Witness ==
  /\ failed
  /\ strokeDown
  /\ canvasData.brushMap = Patterns.Three
  /\ brushCoords = {[x |-> 0, y |-> 0]}
  /\ strokeData = makeMatrix(FALSE)
  /\ stamps = makeMatrix(0)

ClaimedOffsets(brushMap) ==
  LET text == mapPlainOf(brushMap)
      S == CHOOSE n \in 1..Len(text) : n * n = Len(text)
      anchors == {i \in 0..(Len(text) - 1) : text[i + 1] = "X"}
      a == IF anchors = {} THEN 0 ELSE CHOOSE i \in anchors : \A j \in anchors : i <= j
  IN  { <<(i % S) - (a % S), (i \div S) - (a \div S)>> :
          i \in {j \in 0..(Len(text) - 1) : text[j + 1] \in {"0", "X"}} }

\* C16: the footprint of a brush map that resolves is exactly the offsets the
\* specification gives it, a stamp marks the cells of the grid at those offsets
\* from its anchor, and a map with an anchor marker has the offset (0, 0).
C16_OffsetsAsSpecified ==
  Resolves(canvasData.brushMap) =>
    /\ footprintOf(canvasData.brushMap) = ClaimedOffsets(canvasData.brushMap)
    /\ \A claimed \in {ClaimedOffsets(canvasData.brushMap)} : \A p \in Anchors :
          drawBrush(Cur, p[1], p[2]).stroke
            = {c \in Cells : <<c[1] - p[1], c[2] - p[2]>> \in claimed}
    /\ (\E i \in 1..Len(canvasData.brushMap) : canvasData.brushMap[i] = "X")
          => <<0, 0>> \in footprintOf(canvasData.brushMap)

\* A stroke has stamped the map whose anchor marker is its last character at the
\* far corner of the grid: the corner and the cells left of it and above it are
\* marked, the cell on the diagonal (under the blank) is not.
C16_Witness ==
  /\ strokeDown
  /\ canvasData.brushMap = Patterns.CursorLast
  /\ \A c \in Cells :
        /\ strokeData[c[1]][c[2]]
              = (c \in { <<GRID_SIZE - 1, GRID_SIZE - 1>>, <<GRID_SIZE - 2, GRID_SIZE - 1>>,
                         <<GRID_SIZE - 1, GRID_SIZE - 2>> })
        /\ (stamps[c[1]][c[2]] >= 1) = strokeData[c[1]][c[2]]

\* Channel values at and next to the ends and the middle of the 8-bit range.
Channels == {0, 1, 127, 128, 254, 255}

\* The colors the cells of the grid hold.
CellColors == { canvasData.canvas[c[1]][c[2]] : c \in Cells }

\* C17: at opacity 1 the blend of any color under any color is the upper color:
\* channel by channel, for every color of the grid under every color of the
\* palette, and in the commit of a stroke at full opacity, which leaves every
\* masked cell with the brush color.
C17_FullOpacityIsOverlay ==
  /\ \A n \in Channels : \A c \in Channels : blendChannel(n, c, Opacities.Full) = n
  /\ \A base \in CellColors : \A overlay \in BlendInputs.palette :
        hexToRgb(blendColors(base, overlay, Opacities.Full)) = hexToRgb(overlay)
  /\ (strokeDown /\ canvasData.opacity = Opacities.Full) =>
        \A c \in Cells : strokeData[c[1]][c[2]] =>
           hexToRgb(endStroke(Cur).canvasData.canvas[c[1]][c[2]]) = hexToRgb(canvasData.brushColor)

\* A stroke at full opacity in black is committed over a cell that an earlier
\* stroke had already changed.
C17_Witness ==
  /\ ~strokeDown
  /\ changing = 2
  /\ canvasData.opacity = Opacities.Full
  /\ canvasData.brushColor = Colors.Black
  /\ hexToRgb(canvasData.canvas[0][0]) = hexToRgb(Colors.Black)

\* The string is "#" and six hex digits.
IsHexColor(color) ==
  /\ Len(color) = 7
  /\ color[1] = "#"
  /\ \A i \in 2..7 : IsHexDigit(color[i])

\* C18: every cell of the grid holds a color, "#" and six hex digits, and the
\* rounded blend of 8-bit channels stays in 0..255 at every opacity: for the
\* channels of every color of the grid under every color of the palette, and
\* for channel values at the ends and the middle of the range.
C18_CellsHoldColors ==
  /\ \A color \in CellColors : IsHexColor(color)
  /\ \A base \in {hexToRgb(color) : color \in CellColors} :
        \A overlay \in {hexToRgb(color) : color \in BlendInputs.palette} :
          \A opacity \in BlendInputs.opacities :
            \A blend \in {blendRgb(base, overlay, opacity)} :
              blend.r \in 0..255 /\ blend.g \in 0..255 /\ blend.b \in 0..255
  /\ \A n \in Channels : \A c \in Channels : \A opacity \in BlendInputs.opacities :
        blendChannel(n, c, opacity) \in 0..255

\* Two strokes below full opacity are committed on the cell (0, 0), which holds
\* a color that is none of the palette.
C18_Witness ==
  /\ ~strokeDown
  /\ changing = 2
  /\ canvasData.opacity = Opacities.Eighth
  /\ \A color \in BlendInputs.palette :
        hexToRgb(canvasData.canvas[0][0]) # hexToRgb(color)

\* C19: a mouse move to a position whose column or row is not in the grid sets
\* no mask entry and leaves no hover coordinates, with a stroke down or not.
C19_MoveOutsideDrawsNothing ==
  [][ \A p \in MainInputs.mouse :
        (~inGrid(p[1], p[2]) /\ Apply(handleMouseMove(Cur, p[1], p[2]))) =>
           strokeData' = strokeData /\ brushCoords' = {} ]_vars

\* C20: when brush color and opacity are as they were when the stroke began, a
\* commit writes to every cell the stroke has stamped the fill that the last
\* stamp of the cell drew on the overlay.
C20_CommitEqualsPreview ==
  [][ (Commit /\ steady) =>
        \A c \in Cells : stamps[c[1]][c[2]] >= 1 =>
           canvasData'.canvas[c[1]][c[2]] = preview[c[1]][c[2]] ]_vars

\* After an earlier commit has changed the grid, a stroke at one half is down
\* with color and opacity unchanged since it began, and it has stamped a cell
\* whose fill on the overlay differs from the color the grid holds for it.
C20_Witness ==
  /\ strokeDown
  /\ steady
  /\ changing >= 1
  /\ canvasData.opacity = Opacities.Half
  /\ \E c \in Cells :
        /\ stamps[c[1]][c[2]] >= 1
        /\ preview[c[1]][c[2]] # <<>>
        /\ hexToRgb(preview[c[1]][c[2]]) # hexToRgb(canvasData.canvas[c[1]][c[2]])

====
